---- MODULE Spec2Model ----
(***************************************************************************)
(* The `harvester create` command (cmd/harvester/command.go, Create) as a  *)
(* state machine: the "Validate Configuration" gate, the construction of   *)
(* the provisioner, the staged run of ProvisionManagementCluster over the  *)
(* phase registry, and the error the command returns.                      *)
(*                                                                         *)
(* Create's RunE body is modelled from the source.  The packages it calls  *)
(* (utilities, catalog, provision, step) and ValidateProvidedFlags are not *)
(* part of the source at hand; they are modelled from their contract.      *)
(***************************************************************************)
EXTENDS Naturals, Integers, Sequences, FiniteSets, TLC

VARIABLES
    cmd,          \* the raw command-line values (read-only during a run)
    pc,           \* position in Create's RunE
    ret,          \* the error RunE returns (Nil for nil)
    steps,        \* every call made on the Step Reporter, in order
    activeStep,   \* the Step Reporter's current step ("" when none)
    constructed,  \* provisioner (and cluster client) constructed
    provState,    \* ProvisionRun state
    cur,          \* ProvisionRun: current phase index (0 before the first)
    phasePc,      \* position inside the current phase
    outcome,      \* ProvisionRun: outcome per phase
    started,      \* phases whose run function was invoked, in order
    clientCalls,  \* number of Cluster Client calls made
    perr,         \* error returned by ProvisionManagementCluster
    cancelled,    \* the run's context is cancelled
    cancelledIn   \* phase in progress when the context was cancelled (0: none)

vars == <<cmd, pc, ret, steps, activeStep, constructed, provState, cur,
          phasePc, outcome, started, clientCalls, perr, cancelled, cancelledIn>>

provVars == <<provState, cur, phasePc, outcome, started, clientCalls, perr>>

----------------------------------------------------------------------------
(* Bounds and input domains *)

MaxApps == 2

GitProviderInputs == {"github", "gitlab", "bitbucket"}

GitProtocolInputs == {"", "https", "ssh", "ftp"}

StopAfterInputs == {"", "argocd", "ingress", "vcluster", "vault", "dns"}

CatalogInputs == {"known-app", "unknown-app"}

AppLists == UNION {[1..n -> CatalogInputs] : n \in 0..MaxApps}

----------------------------------------------------------------------------
(* Program constants *)

supportedGitProviders == {"github", "gitlab"}

supportedGitProtocolOverride == {"https", "ssh"}

\* the phases named by the stop-after flag, in provisioning order
Registry == <<"argocd", "ingress", "vcluster", "vault">>

NumPhases == Len(Registry)

Range(s) == {s[i] : i \in 1..Len(s)}

PhaseNames == Range(Registry)

----------------------------------------------------------------------------
(* Errors: a message chain and the set of causes errors.Is can find *)

Nil == [msg |-> <<>>, tags |-> {}]

NewError(text, tag) == [msg |-> <<text>>, tags |-> {tag}]

\* fmt.Errorf("text: %v", err): the message is kept, the chain is lost
ErrorfNoWrap(text, err) == [msg |-> <<text>> \o err.msg, tags |-> {}]

\* fmt.Errorf("text: %w", err): the message is prefixed, the chain is kept
Errorf(text, err) == [msg |-> <<text>> \o err.msg, tags |-> err.tags]

IsCancelled(err) == "context canceled" \in err.tags

----------------------------------------------------------------------------
(* Collaborators of Create, modelled from their contract *)

GetFlagsNoProtocolCheck(c) ==
    IF ~c.flagsDefined
    THEN NewError("failed to get flag", "flag")
    ELSE IF c.stopAfter /= "" /\ c.stopAfter \notin PhaseNames
    THEN NewError("unknown stop-after phase", "validation")
    ELSE Nil

GetFlagsNoStopAfterCheck(c) ==
    IF ~c.flagsDefined
    THEN NewError("failed to get flag", "flag")
    ELSE IF c.gitProtocol /= "" /\ c.gitProtocol \notin supportedGitProtocolOverride
    THEN NewError("unsupported git protocol", "validation")
    ELSE Nil

\* utilities.GetFlags: retrieves every flag of the command and resolves the
\* configuration; the checks of the validation gate that no other call of
\* Create receives an argument for (git protocol, stop-after) are made here
GetFlags(c) ==
    IF ~c.flagsDefined
    THEN NewError("failed to get flag", "flag")
    ELSE IF c.gitProtocol /= "" /\ c.gitProtocol \notin supportedGitProtocolOverride
    THEN NewError("unsupported git protocol", "validation")
    ELSE IF c.stopAfter /= "" /\ c.stopAfter \notin PhaseNames
    THEN NewError("unknown stop-after phase", "validation")
    ELSE Nil

\* catalog.ValidateCatalogApps: every requested app must be in the catalog
ValidateCatalogApps(apps) ==
    IF \E i \in 1..Len(apps) : apps[i] /= "known-app"
    THEN NewError("catalog app not found", "validation")
    ELSE Nil

\* ValidateProvidedFlags(gitProvider)
ValidateProvidedFlags(gitProvider) ==
    IF gitProvider \notin supportedGitProviders
    THEN NewError("unsupported git provider", "validation")
    ELSE Nil

\* the error the provisioner returns for a failed phase: the cause wrapped
\* with the phase's name
PhaseError(name, cause) == [msg |-> <<name, cause>>, tags |-> {cause}]

\* Step Reporter: begin-step
NewProgressStep(name) ==
    /\ steps' = Append(steps, [op |-> "begin", name |-> name])
    /\ activeStep' = name

\* Step Reporter: complete-step
CompleteCurrentStep ==
    /\ steps' = Append(steps, [op |-> "complete", name |-> activeStep])
    /\ activeStep' = ""

\* Step Reporter: fail-step
FailCurrentStep ==
    /\ steps' = Append(steps, [op |-> "fail", name |-> activeStep])
    /\ activeStep' = ""

----------------------------------------------------------------------------
(* Initial state: RunE is entered with some command line *)

Init ==
    /\ cmd \in [flagsDefined : BOOLEAN,
                gitProvider : GitProviderInputs,
                gitProtocol : GitProtocolInputs,
                stopAfter : StopAfterInputs,
                installCatalogApps : AppLists]
    /\ pc = "start"
    /\ ret = Nil
    /\ steps = <<>>
    /\ activeStep = ""
    /\ constructed = FALSE
    /\ provState = "NotStarted"
    /\ cur = 0
    /\ phasePc = "idle"
    /\ outcome = [i \in 1..NumPhases |-> "pending"]
    /\ started = <<>>
    /\ clientCalls = 0
    /\ perr = Nil
    /\ cancelled = FALSE
    /\ cancelledIn = 0

----------------------------------------------------------------------------
(* Create: the validation gate *)

\* stepper.NewProgressStep("Validate Configuration")
BeginValidate ==
    /\ pc = "start"
    /\ NewProgressStep("Validate Configuration")
    /\ pc' = "getflags"
    /\ UNCHANGED <<cmd, ret, constructed, provVars, cancelled, cancelledIn>>

\* the early return of a gate check: fail the step, return the wrapped error
GateReturn(text, err) ==
    /\ FailCurrentStep
    /\ ret' = Errorf(text, err)
    /\ pc' = "done"
    /\ UNCHANGED <<cmd, constructed, provVars, cancelled, cancelledIn>>

GatePass(next) ==
    /\ pc' = next
    /\ UNCHANGED <<cmd, ret, steps, activeStep, constructed, provVars,
                   cancelled, cancelledIn>>

GetFlagsStepNoReturn ==
    /\ pc = "getflags"
    /\ GatePass("catalog")

\* cliFlags, err := utilities.GetFlags(cmd, cloudProvider)
GetFlagsStep ==
    /\ pc = "getflags"
    /\ LET err == GetFlags(cmd)
       IN IF err /= Nil
          THEN GateReturn("failed to get flags", err)
          ELSE GatePass("catalog")

ValidateCatalogStepNoFail ==
    /\ pc = "catalog"
    /\ LET err == ValidateCatalogApps(cmd.installCatalogApps)
       IN IF err /= Nil
          THEN /\ ret' = Errorf("validation of catalog apps failed", err)
               /\ pc' = "done"
               /\ UNCHANGED <<cmd, steps, activeStep, constructed, provVars,
                              cancelled, cancelledIn>>
          ELSE GatePass("validate")

\* _, catalogApps, err := catalog.ValidateCatalogApps(ctx, ...)
ValidateCatalogStep ==
    /\ pc = "catalog"
    /\ LET err == ValidateCatalogApps(cmd.installCatalogApps)
       IN IF err /= Nil
          THEN GateReturn("validation of catalog apps failed", err)
          ELSE GatePass("validate")

ValidateFlagsStepNoReturn ==
    /\ pc = "validate"
    /\ GatePass("construct")

\* err = ValidateProvidedFlags(cliFlags.GitProvider)
ValidateFlagsStep ==
    /\ pc = "validate"
    /\ LET err == ValidateProvidedFlags(cmd.gitProvider)
       IN IF err /= Nil
          THEN GateReturn("provided flags validation failed", err)
          ELSE GatePass("construct")

ConstructNoComplete ==
    /\ pc = "construct"
    /\ constructed' = TRUE
    /\ pc' = "provision"
    /\ UNCHANGED <<cmd, ret, steps, activeStep, provVars, cancelled, cancelledIn>>

\* stepper.CompleteCurrentStep(); cluster.Client{}; provision.NewProvisioner
Construct ==
    /\ pc = "construct"
    /\ CompleteCurrentStep
    /\ constructed' = TRUE
    /\ pc' = "provision"
    /\ UNCHANGED <<cmd, ret, provVars, cancelled, cancelledIn>>

----------------------------------------------------------------------------
(* provision.ProvisionManagementCluster: the staged run *)

\* NotStarted -> Running(first phase)
ProvEnter ==
    /\ pc = "provision"
    /\ provState = "NotStarted"
    /\ provState' = "Running"
    /\ cur' = 1
    /\ phasePc' = "begin"
    /\ UNCHANGED <<cmd, pc, ret, steps, activeStep, constructed, outcome,
                   started, clientCalls, perr, cancelled, cancelledIn>>

\* emit started, invoke the phase's run function
PhaseBegin ==
    /\ pc = "provision"
    /\ provState = "Running"
    /\ phasePc = "begin"
    /\ NewProgressStep(Registry[cur])
    /\ started' = Append(started, cur)
    /\ outcome' = [outcome EXCEPT ![cur] = "running"]
    /\ phasePc' = "run"
    /\ UNCHANGED <<cmd, pc, ret, constructed, provState, cur, clientCalls,
                   perr, cancelled, cancelledIn>>

\* the run function succeeds: emit completed, then halt at the checkpoint,
\* complete the run, or advance to the next phase
PhaseSucceeds ==
    /\ pc = "provision"
    /\ provState = "Running"
    /\ phasePc = "run"
    /\ ~cancelled
    /\ CompleteCurrentStep
    /\ clientCalls' = clientCalls + 1
    /\ outcome' = [outcome EXCEPT ![cur] = "completed"]
    /\ IF Registry[cur] = cmd.stopAfter
       THEN provState' = "HaltedAtCheckpoint" /\ cur' = cur /\ phasePc' = "idle"
       ELSE IF cur = NumPhases
       THEN provState' = "Completed" /\ cur' = cur /\ phasePc' = "idle"
       ELSE provState' = "Running" /\ cur' = cur + 1 /\ phasePc' = "begin"
    /\ perr' = Nil
    /\ UNCHANGED <<cmd, pc, ret, constructed, started, cancelled, cancelledIn>>

PhaseEndsWith(cause) ==
    /\ FailCurrentStep
    /\ outcome' = [outcome EXCEPT ![cur] = "failed"]
    /\ provState' = "Failed"
    /\ phasePc' = "idle"
    /\ perr' = PhaseError(Registry[cur], cause)
    /\ UNCHANGED <<cmd, pc, ret, constructed, cur, started, cancelled, cancelledIn>>

\* the run function fails: emit failed(cause), transition to Failed
PhaseFails ==
    /\ pc = "provision"
    /\ provState = "Running"
    /\ phasePc = "run"
    /\ ~cancelled
    /\ \E calls \in 0..1 : clientCalls' = clientCalls + calls
    /\ PhaseEndsWith("phase failed")

\* the context is cancelled: the run function aborts with the cancellation
PhaseCancelled ==
    /\ pc = "provision"
    /\ provState = "Running"
    /\ phasePc = "run"
    /\ cancelled
    /\ UNCHANGED clientCalls
    /\ PhaseEndsWith("context canceled")

\* the context passed down from cmd.Context() is cancelled by the caller
Cancel ==
    /\ pc /= "done"
    /\ ~cancelled
    /\ cancelled' = TRUE
    /\ cancelledIn' = IF phasePc = "run" THEN cur ELSE 0
    /\ UNCHANGED <<cmd, pc, ret, steps, activeStep, constructed, provVars>>

----------------------------------------------------------------------------
(* Create: the result of the command *)

ProvTerminal == provState \in {"Completed", "Failed", "HaltedAtCheckpoint"}

CreateResultSwallow(err) == Nil

CreateResultAlwaysWrap(err) ==
    Errorf("failed to create harvester management cluster", err)

CreateResultDropCause(err) ==
    IF err /= Nil
    THEN NewError("failed to create harvester management cluster", "create")
    ELSE Nil

\* if err := provision.ProvisionManagementCluster(...); err != nil { wrap }
CreateResult(err) ==
    IF err /= Nil
    THEN Errorf("failed to create harvester management cluster", err)
    ELSE Nil

ProvisionReturnRetry ==
    /\ pc = "provision"
    /\ ProvTerminal
    /\ IF perr /= Nil
       THEN /\ provState' = "NotStarted"
            /\ UNCHANGED <<pc, ret>>
       ELSE /\ ret' = Nil
            /\ pc' = "done"
            /\ UNCHANGED provState
    /\ UNCHANGED <<cmd, steps, activeStep, constructed, cur, phasePc, outcome,
                   started, clientCalls, perr, cancelled, cancelledIn>>

\* ProvisionManagementCluster returns; RunE returns
ProvisionReturn ==
    /\ pc = "provision"
    /\ ProvTerminal
    /\ ret' = CreateResult(perr)
    /\ pc' = "done"
    /\ UNCHANGED <<cmd, steps, activeStep, constructed, provVars, cancelled,
                   cancelledIn>>

----------------------------------------------------------------------------

Program ==
    \/ BeginValidate
    \/ GetFlagsStep
    \/ ValidateCatalogStep
    \/ ValidateFlagsStep
    \/ Construct
    \/ ProvEnter
    \/ PhaseBegin
    \/ PhaseSucceeds
    \/ PhaseFails
    \/ PhaseCancelled
    \/ ProvisionReturn

Next == Program \/ Cancel

Spec == Init /\ [][Next]_vars

\* RunE runs on one goroutine that is never starved: the program takes its
\* next step whenever it has one
FairSpec == Spec /\ WF_vars(Program)

----------------------------------------------------------------------------
(* Properties *)

GateFails ==
    \/ GetFlags(cmd) /= Nil
    \/ ValidateCatalogApps(cmd.installCatalogApps) /= Nil
    \/ ValidateProvidedFlags(cmd.gitProvider) /= Nil

NamesPhase(err, k) == Registry[k] \in Range(err.msg)

NotStartedAfter(k) ==
    \A j \in (k + 1)..NumPhases :
        outcome[j] = "pending" /\ j \notin Range(started)

\* C1: when phase k's run function fails, no phase after k is ever started,
\* the run is in Failed(k), ProvisionManagementCluster's error is non-nil and
\* names phase k, and the command returns that error wrapped (non-nil, still
\* naming phase k).
C1_FailureStopsPipeline ==
    \A k \in 1..NumPhases :
        outcome[k] = "failed" =>
            /\ NotStartedAfter(k)
            /\ provState = "Failed"
            /\ cur = k
            /\ perr /= Nil
            /\ NamesPhase(perr, k)
            /\ pc = "done" =>
                   /\ ret /= Nil
                   /\ Head(ret.msg) = "failed to create harvester management cluster"
                   /\ NamesPhase(ret, k)

C1_Witness ==
    /\ pc = "done"
    /\ outcome[2] = "failed"
    /\ outcome[1] = "completed"
    /\ ~cancelled

\* C2: with a stop-after phase configured, once every phase up to and
\* including that phase has completed the run is HaltedAtCheckpoint at it,
\* the result is nil, and no later phase is ever started.
C2_HaltAtCheckpoint ==
    \A k \in 1..NumPhases :
        (Registry[k] = cmd.stopAfter /\ \A j \in 1..k : outcome[j] = "completed") =>
            /\ provState = "HaltedAtCheckpoint"
            /\ cur = k
            /\ perr = Nil
            /\ NotStartedAfter(k)
            /\ pc = "done" => ret = Nil

C2_Witness ==
    /\ pc = "done"
    /\ cmd.stopAfter = "vcluster"
    /\ provState = "HaltedAtCheckpoint"
    /\ outcome[3] = "completed"
    /\ outcome[4] = "pending"
    /\ ret = Nil

\* C3: the Step Reporter calls strictly alternate: the odd calls are
\* begin-step, each even call is the complete-step or fail-step of the step
\* begun just before it (never a call with no active step), a step is active
\* exactly between the two, and none is left open when the command returns.
C3_StrictAlternation ==
    /\ \A i \in 1..Len(steps) :
           IF i % 2 = 1
           THEN steps[i].op = "begin" /\ steps[i].name /= ""
           ELSE /\ steps[i].op \in {"complete", "fail"}
                /\ steps[i].name = steps[i - 1].name
    /\ (activeStep /= "") <=> (Len(steps) % 2 = 1)
    /\ pc = "done" => Len(steps) % 2 = 0

C3_Witness ==
    /\ pc = "done"
    /\ Len(steps) = 8
    /\ steps[2].op = "complete"
    /\ steps[8].op = "fail"

\* C4: when a check of the validation gate fails (flag retrieval, catalog
\* apps, git provider) the provisioner is never constructed or entered, no
\* phase is started, no Cluster Client call is made, and the command
\* returns a non-nil error.
C4_GateFailureIsTerminal ==
    GateFails =>
        /\ ~constructed
        /\ pc \notin {"construct", "provision"}
        /\ provState = "NotStarted"
        /\ started = <<>>
        /\ clientCalls = 0
        /\ pc = "done" => ret /= Nil

C4_Witness ==
    /\ pc = "done"
    /\ cmd.gitProvider = "bitbucket"
    /\ GetFlags(cmd) = Nil
    /\ ValidateCatalogApps(cmd.installCatalogApps) = Nil
    /\ Head(ret.msg) = "provided flags validation failed"

C6_ErrorMarksStepFailed ==
    (pc = "done" /\ ret /= Nil) =>
        /\ steps /= <<>>
        /\ steps[Len(steps)].op = "fail"
        /\ steps[Len(steps)].name /= ""
        /\ activeStep = ""

C6_Witness ==
    /\ pc = "done"
    /\ ret /= Nil
    /\ ValidateCatalogApps(cmd.installCatalogApps) /= Nil
    /\ steps[Len(steps)] = [op |-> "fail", name |-> "Validate Configuration"]

\* C7: the result is nil exactly when the run ended Completed or
\* HaltedAtCheckpoint; Completed means every registered phase completed and
\* no checkpoint halted the run; a phase failure or an invalid configuration
\* gives a non-nil error.
C7_NilIffCompletedOrHalted ==
    /\ pc = "done" =>
           ((ret = Nil) <=> provState \in {"Completed", "HaltedAtCheckpoint"})
    /\ ProvTerminal =>
           ((perr = Nil) <=> provState \in {"Completed", "HaltedAtCheckpoint"})
    /\ provState = "Completed" =>
           /\ \A k \in 1..NumPhases : outcome[k] = "completed"
           /\ cmd.stopAfter \notin PhaseNames
    /\ (pc = "done" /\ (GateFails \/ \E k \in 1..NumPhases : outcome[k] = "failed")) =>
           ret /= Nil

C7_Witness ==
    /\ pc = "done"
    /\ provState = "Completed"
    /\ ret = Nil
    /\ Len(started) = NumPhases

\* C8: phases start in registry order, each at most once, each only after
\* all earlier phases completed, and at most one phase is running.
C8_SequentialNoRetry ==
    /\ \A i \in 1..Len(started) : started[i] = i
    /\ \A i \in Range(started) : \A j \in 1..(i - 1) : outcome[j] = "completed"
    /\ Cardinality({k \in 1..NumPhases : outcome[k] = "running"}) <= 1
    /\ \A k \in 1..NumPhases : outcome[k] /= "pending" <=> k \in Range(started)

C8_Witness ==
    /\ pc = "done"
    /\ started = <<1, 2, 3>>
    /\ outcome[3] = "failed"

\* C9: once the context is cancelled while a phase is in progress, no
\* further phase is started and the command eventually returns an error
\* tagged as cancellation; an error of a run that was not cancelled never
\* carries that tag.
C9_CancellationSurfaces ==
    /\ [](cancelledIn /= 0 => started[Len(started)] = cancelledIn)
    /\ (cancelledIn /= 0) ~> (pc = "done" /\ ret /= Nil /\ IsCancelled(ret))
    /\ []((pc = "done" /\ ~cancelled) => ~IsCancelled(ret))

C9_Witness ==
    /\ pc = "done"
    /\ cancelledIn = 2
    /\ started = <<1, 2>>
    /\ IsCancelled(ret)

====
